---- MODULE Spec2Model ----
(***************************************************************************)
(* Parameter extraction of rquickjs callbacks                              *)
(* (core/src/value/function/params.rs).                                    *)
(*                                                                         *)
(* One behaviour is one call from the engine into a host function whose    *)
(* signature is the tuple `sig`: the trampoline builds a Params snapshot,  *)
(* validates it with check_params against the signature's aggregate        *)
(* ParamReq, turns it into a ParamsAccessor and runs from_params, which    *)
(* runs from_param of every position in declaration order.                 *)
(***************************************************************************)
EXTENDS Integers, Sequences, FiniteSets, TLC

\* ------------------------------------------------------------------ bounds
\* Largest arity of an enumerated tuple signature (the code: 0..7).
MaxArity == 2
\* Largest arity of the tuple nested in an enumerated Flat<..> position.
MaxFlat == 1
\* Largest number of call arguments (argc).
MaxArgs == 4
\* Width of usize in the model, scaled down from the target's word size.
UsizeBits == 3
\* Largest number of ParamReq::combine calls in one run of the ParamReq algebra.
MaxCombines == 3
\* Largest arity of a tuple in a multi-value conversion (the code: 1..11).
MaxTuple == 3

UsizeMax == 2 ^ UsizeBits - 1

\* ------------------------------------------------------------------ values
\* qjs::JSValue: a tag and a payload.
JsInt(n) == [tag |-> "int", val |-> n]
JsObject(h) == [tag |-> "object", val |-> h]
JsString == [tag |-> "string", val |-> 0]
JS_UNDEFINED == [tag |-> "undefined", val |-> 0]

\* The receiver and the callee of the modelled call: two distinct objects.
objRef == JsObject(1)
funcRef == JsObject(2)

\* crate::Error values this layer produces or passes on.
NoError == [kind |-> "none", expected |-> 0, given |-> 0]
MissingArgs(e, g) == [kind |-> "MissingArgs", expected |-> e, given |-> g]
TooManyArgs(e, g) == [kind |-> "TooManyArgs", expected |-> e, given |-> g]
FromJsError == [kind |-> "FromJs", expected |-> 0, given |-> 0]

\* FromJs::from_js for the two host types the model instantiates T with:
\* i32 accepts JS integers, Object accepts JS objects (functions included).
from_js(ty, v) ==
    IF (ty = "i32" /\ v.tag = "int") \/ (ty = "Object" /\ v.tag = "object")
    THEN [ok |-> TRUE, val |-> [ty |-> ty, v |-> v.val], err |-> NoError]
    ELSE [ok |-> FALSE, val |-> [ty |-> ty, v |-> 0], err |-> FromJsError]

\* ------------------------------------------------------------------ ParamReq
ParamReq(mn, mx, ex) == [min |-> mn, max |-> mx, exhaustive |-> ex]

\* An addition that wraps around on overflow.
wrapping_add(a, b) == (a + b) % (UsizeMax + 1)

\* usize::saturating_add
saturating_add(a, b) == IF a + b > UsizeMax THEN UsizeMax ELSE a + b

single == ParamReq(1, 1, FALSE)
exhaustive == ParamReq(0, 0, TRUE)
optional == ParamReq(0, 1, FALSE)
any == ParamReq(0, UsizeMax, FALSE)
none == ParamReq(0, 0, FALSE)

\* combine with max wrapping around on overflow.
combine_max_wraps(self, other) ==
    ParamReq(saturating_add(self.min, other.min),
             (self.max + other.max) % (UsizeMax + 1),
             self.exhaustive \/ other.exhaustive)

\* combine keeping the exhaustive flag of self alone.
combine_self_exhaustive(self, other) ==
    ParamReq(saturating_add(self.min, other.min),
             saturating_add(self.max, other.max),
             self.exhaustive)

combine(self, other) ==
    ParamReq(saturating_add(self.min, other.min),
             saturating_add(self.max, other.max),
             self.exhaustive \/ other.exhaustive)

\* ------------------------------------------------------------------ signatures
\* A position of a signature: its shape and, for Flat<(..)>, the nested tuple.
\* T is i32 for the positions that read arguments and Object for This / Func.
Shape(k) == [kind |-> k, inner |-> <<>>]
Flat(s) == [kind |-> "Flat", inner |-> s]

BasicKinds == {"plain", "Opt", "This", "Func", "Rest", "Exhaustive"}
BasicShapes == {Shape(k) : k \in BasicKinds}
SeqUpTo(S, n) == UNION {[1..m -> S] : m \in 0..n}
FlatShapes == {Flat(s) : s \in SeqUpTo(BasicShapes, MaxFlat)}

NumFlat(s) == Cardinality({i \in 1..Len(s) : s[i].kind = "Flat"})

\* The signatures of the spec's two worked scenarios.
SigThisOptRest == <<Shape("This"), Shape("Opt"), Shape("Rest")>>
SigFlatNested == <<Shape("plain"), Flat(<<Shape("plain"), Shape("plain")>>), Shape("plain")>>

\* Enumerated signatures: every tuple up to MaxArity with at most one Flat
\* position, and the two scenario signatures.
Sigs ==
    {s \in SeqUpTo(BasicShapes \cup FlatShapes, MaxArity) : NumFlat(s) <= 1}
        \cup {SigThisOptRest, SigFlatNested}

RECURSIVE params_required(_)
RECURSIVE requirements_from(_, _, _)

\* impl_from_params::params_requirements: none().combine(A).combine(B)...
requirements_from(s, i, acc) ==
    IF i > Len(s) THEN acc
    ELSE requirements_from(s, i + 1, combine(acc, params_required(s[i])))

params_requirements(s) == requirements_from(s, 1, none)

\* params_required with Flat<T> counted as one argument, whatever T needs.
params_required_Flat_single(p) ==
    CASE p.kind = "plain" -> single
      [] p.kind = "Opt" -> optional
      [] p.kind = "This" -> any
      [] p.kind = "Func" -> any
      [] p.kind = "Rest" -> any
      [] p.kind = "Flat" -> single
      [] p.kind = "Exhaustive" -> exhaustive

\* FromParam::params_required of every shape.
params_required(p) ==
    CASE p.kind = "plain" -> single
      [] p.kind = "Opt" -> optional
      [] p.kind = "This" -> any
      [] p.kind = "Func" -> any
      [] p.kind = "Rest" -> any
      [] p.kind = "Flat" -> params_requirements(p.inner)
      [] p.kind = "Exhaustive" -> exhaustive

\* ------------------------------------------------------------------ state
VARIABLES
    pc,        \* where the trampoline is
    sig,       \* the host function's signature (fixed per behaviour)
    function,  \* Params.function
    this,      \* Params.this
    args,      \* Params.args
    offset,    \* ParamsAccessor.offset
    handed,    \* the values ParamsAccessor::arg has returned, in order
    idx,       \* top-level positions from_params has extracted
    out,       \* the values of the extracted positions
    err,       \* the Err(..) the call ended with
    reqs,      \* ParamReq values built from the constructors by combine
    combines,  \* calls of ParamReq::combine made to build them
    mpc,       \* where a multi-value conversion is
    target,    \* the host type of a multi-value conversion
    value,     \* what a multi-value conversion is given
    result     \* the Result a multi-value conversion returns

paramVars == <<pc, sig, function, this, args, offset, handed, idx, out, err>>
reqVars == <<reqs, combines>>
multiVars == <<mpc, target, value, result>>
vars == <<paramVars, reqVars, multiVars>>

\* The argument arrays of the model: the i-th argument is the JS integer
\* 4 + i, except for at most one position `bad` holding a JS string.
ArgsOf(n, bad) == [i \in 1..n |-> IF i = bad THEN JsString ELSE JsInt(4 + i)]

\* No ParamReq is being built and no multi-value conversion is running.
ReqIdle == reqs = <<>> /\ combines = 0
NoTarget == [dir |-> "none", kind |-> "none", arity |-> 0]
MultiIdle == mpc = "idle" /\ target = NoTarget /\ value = <<>> /\ result = <<>>

\* The call before its Params is built.
ParamsIdle ==
    /\ function = JS_UNDEFINED
    /\ this = JS_UNDEFINED
    /\ args = <<>>
    /\ offset = 0
    /\ handed = <<>>
    /\ idx = 0
    /\ out = <<>>
    /\ err = NoError

Init ==
    /\ pc = "start"
    /\ sig \in Sigs
    /\ ParamsIdle
    /\ ReqIdle
    /\ MultiIdle

\* ------------------------------------------------------------------ Params
\* Params::from_ffi_class: the class convention carries the callee.
from_ffi_class ==
    /\ pc = "start"
    /\ \E argc \in 0..MaxArgs : \E bad \in 0..argc : args' = ArgsOf(argc, bad)
    /\ function' = funcRef
    /\ this' = objRef
    /\ pc' = "built"
    /\ UNCHANGED <<reqVars, multiVars, sig, offset, handed, idx, out, err>>

\* Params::from_ffi_c_func: the plain convention has no callee.
from_ffi_c_func ==
    /\ pc = "start"
    /\ \E argc \in 0..MaxArgs : \E bad \in 0..argc : args' = ArgsOf(argc, bad)
    /\ function' = JS_UNDEFINED
    /\ this' = objRef
    /\ pc' = "built"
    /\ UNCHANGED <<reqVars, multiVars, sig, offset, handed, idx, out, err>>

\* check_params with `<=` for `<` in the test of min.
check_params_le(n, num) ==
    IF n <= num.min THEN MissingArgs(num.min, n)
    ELSE IF num.exhaustive /\ n > num.max THEN TooManyArgs(num.max, n)
    ELSE NoError

\* check_params rejecting surplus arguments whether exhaustive or not.
check_params_strict(n, num) ==
    IF n < num.min THEN MissingArgs(num.min, n)
    ELSE IF n > num.max THEN TooManyArgs(num.max, n)
    ELSE NoError

\* Params::check_params as a function of the argument count.
check_params(n, num) ==
    IF n < num.min THEN MissingArgs(num.min, n)
    ELSE IF num.exhaustive /\ n > num.max THEN TooManyArgs(num.max, n)
    ELSE NoError

\* Params::function and Params::this (both read the `function` field).
Params_function == function
Params_this == function

\* ParamsAccessor::this / function delegate to the snapshot.
ParamsAccessor_this == Params_this
ParamsAccessor_function == Params_function

\* The trampoline validates the snapshot before extracting.
CheckParams ==
    /\ pc = "built"
    /\ LET e == check_params(Len(args), params_requirements(sig)) IN
         /\ err' = e
         /\ pc' = IF e = NoError THEN "checked" ELSE "rejected"
    /\ UNCHANGED <<reqVars, multiVars, sig, function, this, args, offset, handed, idx, out>>

\* Params::access
access ==
    /\ pc = "checked"
    /\ offset' = 0
    /\ pc' = "extract"
    /\ UNCHANGED <<reqVars, multiVars, sig, function, this, args, handed, idx, out, err>>

\* ------------------------------------------------------------------ ParamsAccessor
\* ParamsAccessor::len: args.len() - offset in usize arithmetic.
len(off) == (Len(args) - off) % (UsizeMax + 1)

\* ParamsAccessor::is_empty
is_empty(off) == len(off) = 0

\* arg without `self.offset += 1`.
arg_stuck(off) ==
    IF off < Len(args)
    THEN [panic |-> FALSE, val |-> args[off + 1], offset |-> off]
    ELSE [panic |-> TRUE, val |-> JS_UNDEFINED, offset |-> off]

\* ParamsAccessor::arg at offset `off`: the assertion, the value returned and
\* the offset afterwards.
arg(off) ==
    IF off < Len(args)
    THEN [panic |-> FALSE, val |-> args[off + 1], offset |-> off + 1]
    ELSE [panic |-> TRUE, val |-> JS_UNDEFINED, offset |-> off]

\* ------------------------------------------------------------------ FromParam
\* What an extraction returns: res is "ok" (Ok(val)), "err" (Err(err)) or
\* "panic" (the assertion of arg failed); offset and handed are the cursor
\* afterwards.
Unit == <<>>
Outcome(r, v, e, off, hd) ==
    [res |-> r, val |-> v, err |-> e, offset |-> off, handed |-> hd]

\* T::from_js(params.ctx(), params.arg()): the argument is taken first, then
\* converted.
next_converted(ty, off, hd) ==
    LET a == arg(off) IN
    IF a.panic THEN Outcome("panic", Unit, NoError, off, hd)
    ELSE LET r == from_js(ty, a.val) IN
         IF r.ok THEN Outcome("ok", r.val, NoError, a.offset, Append(hd, a.val))
         ELSE Outcome("err", Unit, r.err, a.offset, Append(hd, a.val))

\* impl FromParam for T
from_param_plain(off, hd) == next_converted("i32", off, hd)

\* Opt<T> with the test of is_empty inverted.
from_param_Opt_inverted(off, hd) ==
    IF is_empty(off)
    THEN LET r == next_converted("i32", off, hd) IN
         IF r.res = "ok" THEN [r EXCEPT !.val = <<r.val>>] ELSE r
    ELSE Outcome("ok", <<>>, NoError, off, hd)

\* impl FromParam for Opt<T>: Some is a one-element sequence, None the empty one.
from_param_Opt(off, hd) ==
    IF ~is_empty(off)
    THEN LET r == next_converted("i32", off, hd) IN
         IF r.res = "ok" THEN [r EXCEPT !.val = <<r.val>>] ELSE r
    ELSE Outcome("ok", <<>>, NoError, off, hd)

\* A conversion of a snapshot slot: the cursor is not touched.
slot_converted(ty, v, off, hd) ==
    LET r == from_js(ty, v) IN
    IF r.ok THEN Outcome("ok", r.val, NoError, off, hd)
    ELSE Outcome("err", Unit, r.err, off, hd)

\* This<T> reading the next argument, as a plain position does.
from_param_This_arg(off, hd) == next_converted("Object", off, hd)

\* impl FromParam for This<T>
from_param_This(off, hd) == slot_converted("Object", ParamsAccessor_this, off, hd)

\* impl FromParam for Func<T>
from_param_Func(off, hd) == slot_converted("Object", ParamsAccessor_function, off, hd)

RECURSIVE rest_loop(_, _, _, _)
\* The loop of Rest<T>::from_param with k iterations to go.
rest_loop(k, off, hd, res) ==
    IF k = 0 THEN Outcome("ok", res, NoError, off, hd)
    ELSE LET r == next_converted("i32", off, hd) IN
         IF r.res = "ok" THEN rest_loop(k - 1, r.offset, r.handed, Append(res, r.val))
         ELSE r

\* Rest<T> looping over the total number of arguments.
from_param_Rest_total(off, hd) == rest_loop(Len(args), off, hd, <<>>)

\* Rest<T> taking every argument that is left before it returns the first Err.
from_param_Rest_drain(off, hd) ==
    LET r == rest_loop(len(off), off, hd, <<>>) IN
    IF r.res = "err"
    THEN [r EXCEPT !.offset = Len(args), !.handed = SubSeq(args, 1, Len(args))]
    ELSE r

\* impl FromParam for Rest<T>: the range 0..params.len() is fixed on entry.
from_param_Rest(off, hd) == rest_loop(len(off), off, hd, <<>>)

\* impl FromParam for Exhaustive
from_param_Exhaustive(off, hd) == Outcome("ok", Unit, NoError, off, hd)

RECURSIVE from_param(_, _, _)
RECURSIVE from_params_from(_, _, _, _, _)

\* impl_from_params::from_params from position i on: every position in
\* declaration order on the same cursor, `?` returning the first failure.
from_params_from(s, i, off, hd, acc) ==
    IF i > Len(s) THEN Outcome("ok", acc, NoError, off, hd)
    ELSE LET r == from_param(s[i], off, hd) IN
         IF r.res = "ok"
         THEN from_params_from(s, i + 1, r.offset, r.handed, Append(acc, r.val))
         ELSE r

from_params(s, off, hd) == from_params_from(s, 1, off, hd, <<>>)

\* Flat<T> running the nested tuple on a cursor of its own.
from_param_Flat_fresh(inner, off, hd) ==
    LET r == from_params(inner, 0, hd) IN [r EXCEPT !.offset = off + r.offset]

\* impl FromParam for Flat<T>: the nested tuple on the same cursor.
from_param_Flat(inner, off, hd) == from_params(inner, off, hd)

\* FromParam::from_param, dispatched on the position's shape.
from_param(p, off, hd) ==
    CASE p.kind = "plain" -> from_param_plain(off, hd)
      [] p.kind = "Opt" -> from_param_Opt(off, hd)
      [] p.kind = "This" -> from_param_This(off, hd)
      [] p.kind = "Func" -> from_param_Func(off, hd)
      [] p.kind = "Rest" -> from_param_Rest(off, hd)
      [] p.kind = "Flat" -> from_param_Flat(p.inner, off, hd)
      [] p.kind = "Exhaustive" -> from_param_Exhaustive(off, hd)

\* ------------------------------------------------------------------ from_params
\* The top-level from_params runs from_param of the next position, which is
\* of shape k ...
NextIs(k) ==
    /\ pc = "extract"
    /\ idx < Len(sig)
    /\ sig[idx + 1].kind = k

\* ... and goes on with the next position, or returns at once on Err (`?`).
Extracted(r) ==
    /\ offset' = r.offset
    /\ handed' = r.handed
    /\ err' = r.err
    /\ pc' = CASE r.res = "ok" -> "extract"
               [] r.res = "err" -> "failed"
               [] r.res = "panic" -> "panic"
    /\ idx' = IF r.res = "ok" THEN idx + 1 ELSE idx
    /\ out' = IF r.res = "ok" THEN Append(out, r.val) ELSE out
    /\ UNCHANGED <<reqVars, multiVars, sig, function, this, args>>

ExtractPlain ==
    /\ NextIs("plain")
    /\ Extracted(from_param_plain(offset, handed))

ExtractOpt ==
    /\ NextIs("Opt")
    /\ Extracted(from_param_Opt(offset, handed))

ExtractThis ==
    /\ NextIs("This")
    /\ Extracted(from_param_This(offset, handed))

ExtractFunc ==
    /\ NextIs("Func")
    /\ Extracted(from_param_Func(offset, handed))

ExtractRest ==
    /\ NextIs("Rest")
    /\ Extracted(from_param_Rest(offset, handed))

ExtractFlat ==
    /\ NextIs("Flat")
    /\ Extracted(from_param_Flat(sig[idx + 1].inner, offset, handed))

ExtractExhaustive ==
    /\ NextIs("Exhaustive")
    /\ Extracted(from_param_Exhaustive(offset, handed))

\* Ok((..)): every position was extracted.
Return ==
    /\ pc = "extract"
    /\ idx = Len(sig)
    /\ pc' = "done"
    /\ UNCHANGED <<reqVars, multiVars, sig, function, this, args, offset, handed, idx, out, err>>

Next ==
    \/ from_ffi_class
    \/ from_ffi_c_func
    \/ CheckParams
    \/ access
    \/ ExtractPlain
    \/ ExtractOpt
    \/ ExtractThis
    \/ ExtractFunc
    \/ ExtractRest
    \/ ExtractFlat
    \/ ExtractExhaustive
    \/ Return

Spec == Init /\ [][Next]_vars

\* ------------------------------------------------------------------ ParamReq algebra
\* The values of ParamReq: its fields are private, so a ParamReq is one of the
\* five constructors or the combine of two ParamReq.  Three of them are kept;
\* a run starts from constructors and combines them in any way.
Constructors == {single, exhaustive, optional, any, none}

ReqInit ==
    /\ pc = "req"
    /\ sig = <<>>
    /\ ParamsIdle
    /\ MultiIdle
    /\ reqs \in [1..3 -> Constructors]
    /\ combines = 0

\* ParamReq::combine of two of the values, kept in place of one of them.
Combine ==
    /\ pc = "req"
    /\ combines < MaxCombines
    /\ \E i \in 1..3 : \E j \in 1..3 : \E k \in 1..3 :
         reqs' = [reqs EXCEPT ![i] = combine(reqs[j], reqs[k])]
    /\ combines' = combines + 1
    /\ UNCHANGED <<paramVars, multiVars>>

\* FromParams::params_requirements of a tuple signature: a fold of combine
\* that starts from ParamReq::none().
Aggregate ==
    /\ pc = "req"
    /\ combines = 0
    /\ reqs = <<none, none, none>>
    /\ \E s \in Sigs :
         /\ sig' = s
         /\ reqs' = <<params_requirements(s), none, none>>
    /\ pc' = "aggregated"
    /\ UNCHANGED <<function, this, args, offset, handed, idx, out, err, combines, multiVars>>

ReqNext == Combine \/ Aggregate

SpecReq == ReqInit /\ [][ReqNext]_vars

\* ------------------------------------------------------------------ multi-value conversion
\* (src/value/convert/multi.rs)
\* The host values given to ToJs::to_js: an i32, a String, and a value whose
\* conversion fails.
HostI32(n) == [ty |-> "i32", v |-> n]
HostString == [ty |-> "String", v |-> 0]
HostBad == [ty |-> "Bad", v |-> 0]

ToJsError == [kind |-> "ToJs", expected |-> 0, given |-> 0]

\* Error::MissingArguments(given, expected)
MissingArguments(g, e) == [kind |-> "MissingArguments", expected |-> e, given |-> g]

Ok(v) == [ok |-> TRUE, val |-> v, err |-> NoError]
Err(e) == [ok |-> FALSE, val |-> <<>>, err |-> e]

\* ToJs::to_js
to_js(h) ==
    CASE h.ty = "i32" -> Ok(JsInt(h.v))
      [] h.ty = "String" -> Ok(JsString)
      [] OTHER -> Err(ToJsError)

\* impl ToJsMulti for Vec<Value>
to_js_multi_Vec(v) == Ok(v)

\* impl ToJsMulti for T: ToJs
to_js_multi_T(h) ==
    LET r == to_js(h) IN IF r.ok THEN Ok(<<r.val>>) ELSE r

RECURSIVE to_js_each(_, _)
\* vec![A.to_js(ctx)?, B.to_js(ctx)?, ..]: in order, `?` returning the first Err.
to_js_each(hs, acc) ==
    IF hs = <<>> THEN Ok(acc)
    ELSE LET r == to_js(Head(hs)) IN
         IF r.ok THEN to_js_each(Tail(hs), Append(acc, r.val)) ELSE r

RECURSIVE to_js_each_rev(_, _)
\* The same with every converted value put in front of the earlier ones.
to_js_each_rev(hs, acc) ==
    IF hs = <<>> THEN Ok(acc)
    ELSE LET r == to_js(Head(hs)) IN
         IF r.ok THEN to_js_each_rev(Tail(hs), <<r.val>> \o acc) ELSE r

to_js_multi_tuple_rev(hs) == to_js_each_rev(hs, <<>>)

\* impl_to_js_multi: ToJsMulti for a tuple
to_js_multi_tuple(hs) == to_js_each(hs, <<>>)

\* impl FromJsMulti for Args
from_js_multi_Args(v) == Ok(v)

\* impl FromJsMulti for T: FromJs
from_js_multi_T(v) ==
    LET n == Len(v) IN
    IF v = <<>> THEN Err(MissingArguments(n, 1))
    ELSE LET r == from_js("i32", Head(v)) IN
         IF r.ok THEN Ok(r.val) ELSE Err(r.err)

RECURSIVE from_js_each(_, _, _, _)
\* The k positions of the tuple still to fill from the iterator `iter`; n is
\* value.len(), taken before the iterator was made.
from_js_each(k, iter, n, acc) ==
    IF k = 0 THEN Ok(acc)
    ELSE IF iter = <<>> THEN Err(MissingArguments(n, 1))
    ELSE LET r == from_js("i32", Head(iter)) IN
         IF r.ok THEN from_js_each(k - 1, Tail(iter), n, Append(acc, r.val))
         ELSE Err(r.err)

\* The same reporting the macro's $num (the arity) as the length seen.
from_js_multi_tuple_num(k, v) == from_js_each(k, v, k, <<>>)

\* impl_from_js_multi: FromJsMulti for a tuple of arity k
from_js_multi_tuple(k, v) == from_js_each(k, v, Len(v), <<>>)

\* What the conversions are given: sequences of JS values, and tuples of host
\* values whose i-th element is the i32 i but for at most one position.
JsSeqs == {ArgsOf(n, bad) : n \in 0..MaxArgs, bad \in 0..MaxArgs}
HostTuples(k) ==
    {[i \in 1..k |-> IF i = p THEN h ELSE HostI32(i)] :
        p \in 0..k, h \in {HostString, HostBad}}

Target(d, knd, k) == [dir |-> d, kind |-> knd, arity |-> k]

MultiInit ==
    /\ pc = "multi"
    /\ sig = <<>>
    /\ ParamsIdle
    /\ ReqIdle
    /\ mpc = "call"
    /\ result = <<>>
    /\ \/ target = Target("from", "Args", 0) /\ value \in JsSeqs
       \/ target = Target("from", "single", 1) /\ value \in JsSeqs
       \/ \E k \in 1..MaxTuple : target = Target("from", "tuple", k) /\ value \in JsSeqs
       \/ target = Target("to", "Vec", 0) /\ value \in JsSeqs
       \/ target = Target("to", "single", 1) /\ value \in HostTuples(1)
       \/ \E k \in 1..MaxTuple : target = Target("to", "tuple", k) /\ value \in HostTuples(k)

\* A conversion of direction d into / from a host type of kind knd is called ...
Called(d, knd) ==
    /\ pc = "multi"
    /\ mpc = "call"
    /\ target.dir = d
    /\ target.kind = knd

\* ... and returns r.
Returns(r) ==
    /\ result' = r
    /\ mpc' = "done"
    /\ UNCHANGED <<paramVars, reqVars, target, value>>

FromJsMultiArgs ==
    /\ Called("from", "Args")
    /\ Returns(from_js_multi_Args(value))

FromJsMultiSingle ==
    /\ Called("from", "single")
    /\ Returns(from_js_multi_T(value))

FromJsMultiTuple ==
    /\ Called("from", "tuple")
    /\ Returns(from_js_multi_tuple(target.arity, value))

ToJsMultiVec ==
    /\ Called("to", "Vec")
    /\ Returns(to_js_multi_Vec(value))

ToJsMultiSingle ==
    /\ Called("to", "single")
    /\ Returns(to_js_multi_T(Head(value)))

ToJsMultiTuple ==
    /\ Called("to", "tuple")
    /\ Returns(to_js_multi_tuple(value))

MultiNext ==
    \/ FromJsMultiArgs
    \/ FromJsMultiSingle
    \/ FromJsMultiTuple
    \/ ToJsMultiVec
    \/ ToJsMultiSingle
    \/ ToJsMultiTuple

SpecMulti == MultiInit /\ [][MultiNext]_vars

\* ------------------------------------------------------------------ properties
Conv(v) == from_js("i32", v).val
AllInts(a) == \A i \in 1..Len(a) : a[i].tag = "int"

RECURSIVE Flatten(_)
\* The shapes of a signature in extraction order, Flat tuples written inline.
Flatten(s) ==
    IF s = <<>> THEN <<>>
    ELSE (IF Head(s).kind = "Flat" THEN Flatten(Head(s).inner) ELSE <<Head(s).kind>>)
             \o Flatten(Tail(s))

\* No plain position comes after an Opt or Rest position.
RequiredFirst(s) ==
    LET f == Flatten(s) IN
    \A i \in 1..Len(f) : \A j \in 1..Len(f) :
        (i < j /\ f[i] \in {"Opt", "Rest"}) => f[j] # "plain"

\* C1: whatever the order of the positions, once check_params has succeeded
\* from_params never reaches the assertion of ParamsAccessor::arg.
C1_NeverPanics == pc # "panic"

\* The assertion is out of reach exactly for the signatures whose plain
\* positions all come before the Opt and Rest positions.
RequiredFirstNeverPanics == RequiredFirst(sig) => pc # "panic"

\* C2: check_params returns MissingArgs{expected: min, given: n} exactly when
\* n < min, for every requirement of a signature, exhaustive or not.
C2_MissingArgs ==
    pc \in {"checked", "rejected"} =>
        LET num == params_requirements(sig) IN
        (err = MissingArgs(num.min, Len(args))) <=> (Len(args) < num.min)

C2_Witness ==
    /\ pc = "rejected"
    /\ err.kind = "MissingArgs"
    /\ params_requirements(sig).exhaustive

\* C3: with n >= min, check_params returns TooManyArgs{expected: max, given: n}
\* exactly when the requirement is exhaustive and n > max; a requirement that
\* is not exhaustive accepts every n >= min.
C3_TooManyArgs ==
    LET num == params_requirements(sig) IN
    (pc \in {"checked", "rejected"} /\ Len(args) >= num.min) =>
        /\ (err = TooManyArgs(num.max, Len(args))) <=> (num.exhaustive /\ Len(args) > num.max)
        /\ ~num.exhaustive => (pc = "checked" /\ err = NoError)
        /\ (err = NoError) <=> (pc = "checked")

C3_Witness ==
    /\ pc = "rejected"
    /\ err.kind = "TooManyArgs"
    /\ err.expected >= 1

\* C4: the receiver and the callee are distinct slots: Params::this and
\* ParamsAccessor::this return the receiver, Params::function the callee, and
\* an extracted This<T> holds the conversion of the receiver.
C4_ThisIsReceiver ==
    pc # "start" =>
        /\ Params_this = this
        /\ ParamsAccessor_this = this
        /\ Params_function = function
        /\ \A i \in 1..Len(out) : sig[i].kind = "This" => out[i] = from_js("Object", this).val

\* C5: 0 <= offset <= number of arguments; offset is 0 right after access and
\* never decreases; arg returns the argument at the offset before the call and
\* advances it by one, so the values handed out are args[1..offset]; len is
\* the number of arguments minus offset.
C5_Cursor ==
    /\ [](/\ 0 <= offset /\ offset <= Len(args)
          /\ handed = SubSeq(args, 1, offset)
          /\ len(offset) = Len(args) - offset)
    /\ [][access => offset' = 0]_vars
    /\ [][offset' >= offset]_vars
    /\ [][handed' = handed \o SubSeq(args, offset + 1, offset')]_vars

C5_Witness ==
    /\ pc = "extract"
    /\ offset >= 2
    /\ offset < Len(args)

\* C6: the signature (This<Obj>, Opt<i32>, Rest<i32>) called with n
\* convertible arguments and receiver objRef passes validation and yields
\* This(objRef), Opt(Some(a[0])) or Opt(None), and Rest([a[1], ..]).
C6_ThisOptRest ==
    (sig = SigThisOptRest /\ AllInts(args)) =>
        /\ pc \notin {"rejected", "failed", "panic"}
        /\ pc = "done" =>
             /\ out[1] = from_js("Object", objRef).val
             /\ out[2] = IF Len(args) = 0 THEN <<>> ELSE <<Conv(args[1])>>
             /\ out[3] = [i \in 1..(IF Len(args) = 0 THEN 0 ELSE Len(args) - 1) |-> Conv(args[i + 1])]

\* C7: Opt<T> on an exhausted cursor yields None and leaves offset; otherwise
\* it takes exactly one argument and, when that argument converts, yields
\* Some of the conversion of the argument at the offset before.
C7_Opt ==
    [][ExtractOpt =>
          IF offset = Len(args)
          THEN /\ offset' = offset
               /\ pc' = "extract"
               /\ out' = Append(out, <<>>)
          ELSE /\ offset' = offset + 1
               /\ pc' # "panic"
               /\ from_js("i32", args[offset + 1]).ok =>
                    /\ pc' = "extract"
                    /\ out' = Append(out, <<Conv(args[offset + 1])>>)]_vars

C7_Witness ==
    /\ pc = "extract"
    /\ idx >= 2
    /\ sig[idx].kind = "Opt"
    /\ Len(out[idx]) = 1
    /\ offset = 2

\* C8: Rest<T> at offset k over n arguments that all convert takes exactly
\* n - k arguments, yields the conversions of arguments k..n-1 in order and
\* leaves the cursor exhausted.
C8_Rest ==
    [][(ExtractRest /\ \A i \in (offset + 1)..Len(args) : args[i].tag = "int") =>
          /\ pc' = "extract"
          /\ offset' = Len(args)
          /\ handed' = handed \o SubSeq(args, offset + 1, Len(args))
          /\ out' = Append(out, [i \in 1..(Len(args) - offset) |-> Conv(args[offset + i])])]_vars

C8_Witness ==
    /\ pc = "extract"
    /\ idx >= 2
    /\ sig[idx].kind = "Rest"
    /\ Len(out[idx]) >= 2
    /\ Len(out[idx]) < Len(args)
    /\ offset = Len(args)

\* C9: extracting This<T>, Func<T> or Exhaustive leaves the cursor where it
\* was, whether the conversion succeeds or fails.
C9_SlotsLeaveCursor ==
    [][(ExtractThis \/ ExtractFunc \/ ExtractExhaustive) =>
          (offset' = offset /\ handed' = handed /\ len(offset') = len(offset))]_vars

C9_Witness ==
    /\ pc = "failed"
    /\ sig[idx + 1].kind \in {"This", "Func"}
    /\ offset >= 1
    /\ offset < Len(args)

\* C10 as stated: (A, Flat<(B,C)>, D) takes exactly 3 arguments.
C10_TakesThree ==
    (sig = SigFlatNested /\ pc = "done") => offset = 3

\* C10 amended: (A, Flat<(B,C)>, D) takes exactly 4 arguments, handed out in
\* the order A, B, C, D.
C10_TakesFour ==
    (sig = SigFlatNested /\ pc = "done") =>
        /\ offset = 4
        /\ out = <<Conv(args[1]), <<Conv(args[2]), Conv(args[3])>>, Conv(args[4])>>

C10_Witness ==
    /\ sig = SigFlatNested
    /\ pc = "done"
    /\ Len(args) >= 4

\* The sum x clamped to the largest usize.
Clamped(x) == IF x > UsizeMax THEN UsizeMax ELSE x

\* combine(a, b) written with clamped sums.
Combined(a, b) ==
    ParamReq(Clamped(a.min + b.min), Clamped(a.max + b.max), a.exhaustive \/ b.exhaustive)

\* The tuples with the positions of s in another order.
Perms(s) ==
    {[i \in 1..Len(s) |-> s[f[i]]] :
        f \in {g \in [1..Len(s) -> 1..Len(s)] : \A x, y \in 1..Len(s) : g[x] = g[y] => x = y}}

\* C11: combine(a, b) has min = a.min + b.min and max = a.max + b.max, each
\* clamped to the largest usize and never wrapped around, and exhaustive =
\* a.exhaustive or b.exhaustive.
C11_Combine ==
    /\ [](pc = "req" =>
            \A j \in 1..3 : \A k \in 1..3 :
                LET c == combine(reqs[j], reqs[k]) IN
                /\ c = Combined(reqs[j], reqs[k])
                /\ c.min <= UsizeMax /\ c.max <= UsizeMax
                /\ c.min >= reqs[j].min /\ c.max >= reqs[j].max)
    /\ [][Combine =>
            \E i \in 1..3 : \E j \in 1..3 : \E k \in 1..3 :
                reqs' = [reqs EXCEPT ![i] = Combined(reqs[j], reqs[k])]]_vars

C11_Witness ==
    /\ pc = "req"
    /\ \E j \in 1..3 : \E k \in 1..3 :
         /\ reqs[j].min + reqs[k].min > UsizeMax
         /\ reqs[j].min < UsizeMax
         /\ reqs[k].min < UsizeMax
         /\ reqs[j].exhaustive # reqs[k].exhaustive

\* C12: from_js_multi into a k-tuple from L convertible values fails with
\* MissingArguments(L, 1) when L < k and otherwise yields the conversions of
\* the first k values in order; a single target takes the first value and
\* fails with MissingArguments(0, 1) on an empty sequence.
C12_FromJsMulti ==
    (mpc = "done" /\ target.dir = "from" /\ AllInts(value)) =>
        CASE target.kind = "tuple" ->
                 IF Len(value) < target.arity
                 THEN result = Err(MissingArguments(Len(value), 1))
                 ELSE /\ result.ok
                      /\ result.val = [i \in 1..target.arity |-> Conv(value[i])]
          [] target.kind = "single" ->
                 IF Len(value) = 0
                 THEN result = Err(MissingArguments(0, 1))
                 ELSE result.ok /\ result.val = Conv(value[1])
          [] OTHER -> TRUE

C12_Witness ==
    /\ mpc = "done"
    /\ target = Target("from", "tuple", 3)
    /\ value = <<JsInt(5), JsInt(6)>>
    /\ result = Err(MissingArguments(2, 1))

\* C13: to_js_multi of a k-tuple whose elements all convert yields exactly k
\* values, the i-th the conversion of position i; a single value yields a
\* one-element sequence; a sequence of values is returned unchanged.
C13_ToJsMulti ==
    (mpc = "done" /\ target.dir = "to") =>
        CASE target.kind = "tuple" ->
                 (\A i \in 1..Len(value) : to_js(value[i]).ok) =>
                     /\ result.ok
                     /\ Len(result.val) = target.arity
                     /\ \A i \in 1..target.arity : result.val[i] = to_js(value[i]).val
          [] target.kind = "single" ->
                 to_js(value[1]).ok =>
                     (result.ok /\ result.val = <<to_js(value[1]).val>>)
          [] OTHER -> result.ok /\ result.val = value

C13_Witness ==
    /\ mpc = "done"
    /\ target = Target("to", "tuple", 2)
    /\ value = <<HostI32(1), HostString>>
    /\ result = Ok(<<JsInt(1), JsString>>)

\* The signature s with a position of kind k put in after its first i positions.
WithPosition(s, i, k) == SubSeq(s, 1, i) \o <<Shape(k)>> \o SubSeq(s, i + 1, Len(s))

\* C14: a This or Func position added anywhere to a signature leaves the min
\* and the max of its aggregate requirement as they were.
C14_ThisFuncZeroImpact ==
    pc = "aggregated" =>
        \A k \in {"This", "Func"} : \A i \in 0..Len(sig) :
            LET with == params_requirements(WithPosition(sig, i, k)) IN
            /\ with.min = reqs[1].min
            /\ with.max = reqs[1].max

\* What does hold: min and the exhaustive flag are as they were, and max is
\* usize::MAX whatever it was.
ThisFuncLiftsMax ==
    pc = "aggregated" =>
        \A k \in {"This", "Func"} : \A i \in 0..Len(sig) :
            LET with == params_requirements(WithPosition(sig, i, k)) IN
            /\ with.min = reqs[1].min
            /\ with.exhaustive = reqs[1].exhaustive
            /\ with.max = UsizeMax

HasKind(s, k) == \E i \in 1..Len(Flatten(s)) : Flatten(s)[i] = k

\* C15: with the Exhaustive marker in the signature, a call that check_params
\* accepts and from_params extracts ends with every argument consumed.
C15_ExhaustiveConsumesAll ==
    (pc = "done" /\ HasKind(sig, "Exhaustive")) => offset = Len(args)

\* It does for the signatures without a This or Func position.
ExhaustiveWithoutThisFunc ==
    (/\ pc = "done"
     /\ HasKind(sig, "Exhaustive")
     /\ ~HasKind(sig, "This")
     /\ ~HasKind(sig, "Func")) => offset = Len(args)

Converts(ty, v) == from_js(ty, v).ok

\* C16: from_params extracts its positions in declaration order on one cursor
\* and stops at the first conversion that fails: the call ends there with
\* that error and without a tuple, no later position is extracted and the
\* offset stays right after the argument that failed to convert; a Rest
\* position stops at that argument too and leaves the later ones unconsumed.
C16_StopsAtFirstFailure ==
    /\ [](pc \in {"extract", "done", "failed"} =>
            /\ Len(out) = idx
            /\ handed = SubSeq(args, 1, offset)
            /\ \A i \in 1..(offset - 1) : Converts("i32", args[i]))
    /\ [](pc \in {"extract", "done"} =>
            /\ err = NoError
            /\ \A i \in 1..offset : Converts("i32", args[i]))
    /\ [](pc = "failed" =>
            /\ idx < Len(sig)
            /\ \/ /\ offset >= 1
                  /\ ~Converts("i32", args[offset])
                  /\ err = from_js("i32", args[offset]).err
                  /\ sig[idx + 1].kind \in {"plain", "Opt", "Rest", "Flat"}
               \/ /\ \A i \in 1..offset : Converts("i32", args[i])
                  /\ ~Converts("Object", function)
                  /\ err = from_js("Object", function).err
                  /\ HasKind(<<sig[idx + 1]>>, "This") \/ HasKind(<<sig[idx + 1]>>, "Func"))
    /\ [][pc # "failed"]_vars

C16_Witness ==
    /\ pc = "failed"
    /\ sig[idx + 1].kind = "Rest"
    /\ idx >= 1
    /\ offset >= 2
    /\ offset < Len(args)

RECURSIVE Inline(_)
\* The signature s with the positions of every Flat tuple written inline.
Inline(s) ==
    IF s = <<>> THEN <<>>
    ELSE (IF Head(s).kind = "Flat" THEN Inline(Head(s).inner) ELSE <<Head(s)>>)
             \o Inline(Tail(s))

RECURSIVE InlineValues(_, _)
\* The values o extracted for the first Len(o) positions of s, those of a Flat
\* tuple written inline.
InlineValues(s, o) ==
    IF o = <<>> THEN <<>>
    ELSE (IF Head(s).kind = "Flat" THEN InlineValues(Head(s).inner, Head(o)) ELSE <<Head(o)>>)
             \o InlineValues(Tail(s), Tail(o))

\* C17: a signature with a Flat tuple has the aggregate requirement and the
\* check_params outcome of the signature with the tuple's positions written
\* inline, and its extraction ends as the inline one does: the same result,
\* the same arguments handed out to the same positions, the same offset.
C17_FlatIsTransparent ==
    LET inline == Inline(sig) IN
    /\ params_requirements(sig) = params_requirements(inline)
    /\ pc \in {"checked", "rejected"} =>
           err = check_params(Len(args), params_requirements(inline))
    /\ pc \in {"done", "failed", "panic"} =>
           LET r == from_params(inline, 0, <<>>) IN
           /\ offset = r.offset
           /\ handed = r.handed
           /\ err = r.err
           /\ pc = "done" <=> r.res = "ok"
           /\ pc = "failed" <=> r.res = "err"
           /\ pc = "done" => InlineValues(sig, out) = r.val

C17_Witness ==
    /\ pc = "done"
    /\ sig = SigFlatNested
    /\ Len(out[2]) = 2
    /\ offset = 4

\* C18: combine is commutative and associative, saturated sums included, none
\* is its identity, and the aggregate requirement of a signature is that of
\* every permutation of its positions.
C18_CombineLaws ==
    /\ pc = "req" =>
           \A i \in 1..3 : \A j \in 1..3 : \A k \in 1..3 :
               LET a == reqs[i]
                   b == reqs[j]
                   c == reqs[k] IN
               /\ combine(a, b) = combine(b, a)
               /\ combine(combine(a, b), c) = combine(a, combine(b, c))
               /\ combine(a, none) = a
               /\ combine(none, a) = a
    /\ pc = "aggregated" =>
           \A p \in Perms(sig) : params_requirements(p) = reqs[1]

\* Three requirements whose mins saturate only when all three are summed.
C18_Witness ==
    /\ pc = "req"
    /\ reqs[1].min + reqs[2].min <= UsizeMax
    /\ reqs[2].min + reqs[3].min <= UsizeMax
    /\ reqs[1].min + reqs[2].min + reqs[3].min > UsizeMax
    /\ reqs[1].exhaustive /\ ~reqs[2].exhaustive

\* C19: every requirement built from the constructors by combine, and so
\* every aggregate requirement of a signature, has min <= max.
C19_MinLeMax ==
    pc \in {"req", "aggregated"} => \A i \in 1..3 : reqs[i].min <= reqs[i].max

C19_Witness ==
    /\ pc = "req"
    /\ combines = MaxCombines
    /\ \E i \in 1..3 : reqs[i].min = UsizeMax /\ reqs[i].max = UsizeMax
====
